---------------------------- MODULE Spec2Model ----------------------------
(***************************************************************************)
(* State machine of the Rankonfirstpage front-end: the usage gate          *)
(* (handleGenerationAttempt), the premium transition                       *)
(* (handlePaymentSuccess), the page router, the two optimizer forms and    *)
(* the two asynchronous collaborators (Content Generator, PayPal).         *)
(*                                                                         *)
(* React runs every event handler to completion and re-renders before the  *)
(* next event is dispatched, so one action is one handler together with    *)
(* the render that follows it; the values a handler closes over are the    *)
(* values of the state in which the action starts.                         *)
(***************************************************************************)
EXTENDS Integers, Sequences, FiniteSets

\* src/unnamed/part_000:36
GENERATION_LIMIT == 20

\* Most Content Generator calls outstanding at once (mounted form + orphans).
MaxOutstanding == 2
\* Most payment callbacks outstanding at once (captures awaited + timers armed).
MaxPayments == 2

Page == {"home", "optimizer", "pricing"}
OptimizerTab == {"product", "category"}

\* Text of an input field: a sequence of characters; " " is whitespace.
FieldValues == {<<>>, <<" ">>, <<"a">>}

NoError == "null"
NoContent == "null"
GeneratedContent == "content"
ProductValidationError == "Please fill out both product name and keywords."
CategoryValidationError == "Please fill out category keywords and at least one product name."
GenerationFailedError == "Failed to generate content. Please try again."

VARIABLES
    \* App state
    currentPage, initialTab, generationCount, showPaywall, isPremium,
    showPaymentSuccessMessage,
    \* setTimeout callbacks armed by handlePaymentSuccess and not yet run
    dismissTimers,
    \* OptimizerPage state ("none" while the page is not mounted)
    activeTab,
    \* state of the mounted optimizer form (defaults while none is mounted)
    productName, keywords, categoryKeywords, productNames,
    isLoading, error, content,
    \* Content Generator calls outstanding: of the mounted form, and of forms
    \* that were unmounted while their call was pending
    inFlight, orphaned,
    \* PayPal orders approved whose capture has not resolved yet
    captures,
    \* history: the handler that ran last, the gate's result in it ("none"
    \* when the gate was not consulted), and the number of gate calls made
    \* before any payment success (saturating above the limit)
    lastEvent, lastResult, attempts,
    \* the App of src/App.tsx (the build without premium), fed the same
    \* events when it runs side by side: its state and its gate's last result
    appTsx

appVars == <<currentPage, initialTab, generationCount, showPaywall, isPremium,
             showPaymentSuccessMessage, dismissTimers>>
fieldVars == <<productName, keywords, categoryKeywords, productNames>>
formVars == <<productName, keywords, categoryKeywords, productNames,
              isLoading, error, content>>
vars == <<currentPage, initialTab, generationCount, showPaywall, isPremium,
          showPaymentSuccessMessage, dismissTimers, activeTab,
          productName, keywords, categoryKeywords, productNames,
          isLoading, error, content, inFlight, orphaned, captures,
          lastEvent, lastResult, attempts, appTsx>>

---------------------------------------------------------------------------
\* String.prototype.trim: strip leading and trailing whitespace.
RECURSIVE TrimLeft(_)
TrimLeft(s) == IF s # <<>> /\ Head(s) = " " THEN TrimLeft(Tail(s)) ELSE s

RECURSIVE TrimRight(_)
TrimRight(s) ==
    IF s # <<>> /\ s[Len(s)] = " " THEN TrimRight(SubSeq(s, 1, Len(s) - 1)) ELSE s

Trim(s) == TrimRight(TrimLeft(s))

\* !s.trim()
Blank(s) == Trim(s) = <<>>

\* useState initial values of the App of src/App.tsx.
AppTsxInit(running) ==
    [running |-> running, currentPage |-> "home", initialTab |-> "product",
     generationCount |-> 0, showPaywall |-> FALSE, ret |-> "none"]

\* src/App.tsx handleNavigateToOptimizer.
App_handleNavigateToOptimizer(a, tab) ==
    [a EXCEPT !.initialTab = tab, !.currentPage = "optimizer"]

\* src/App.tsx handleNavigateHome.
App_handleNavigateHome(a) == [a EXCEPT !.currentPage = "home"]

\* Mutant: the refused branch forgets setShowPaywall(true).
App_handleGenerationAttempt_NoPaywall(a) ==
    IF a.generationCount >= GENERATION_LIMIT
    THEN [a EXCEPT !.ret = "false"]
    ELSE [a EXCEPT !.generationCount = @ + 1, !.ret = "true"]

\* src/App.tsx handleGenerationAttempt: the gate without premium.
App_handleGenerationAttempt(a) ==
    IF a.generationCount >= GENERATION_LIMIT
    THEN [a EXCEPT !.showPaywall = TRUE, !.ret = "false"]
    ELSE [a EXCEPT !.generationCount = @ + 1, !.ret = "true"]

\* src/App.tsx PaywallModal onClose.
App_onClose(a) == [a EXCEPT !.showPaywall = FALSE]

\* The App of src/App.tsx handles the event the other App has just handled.
AppTsxHandles(ev, res) ==
    LET a == [appTsx EXCEPT !.ret = "none"] IN
    CASE ev = "handleSubmit" /\ res # "none" -> App_handleGenerationAttempt(a)
      [] ev = "handleNavigateHome" -> App_handleNavigateHome(a)
      [] ev = "onOptimizeProduct" -> App_handleNavigateToOptimizer(a, "product")
      [] ev = "onOptimizeCategory" -> App_handleNavigateToOptimizer(a, "category")
      [] ev = "onClose" -> App_onClose(a)
      [] OTHER -> a

MainInit ==
    /\ currentPage = "home"
    /\ initialTab = "product"
    /\ generationCount = 0
    /\ showPaywall = FALSE
    /\ isPremium = FALSE
    /\ showPaymentSuccessMessage = FALSE
    /\ dismissTimers = 0
    /\ activeTab = "none"
    /\ productName = <<>> /\ keywords = <<>>
    /\ categoryKeywords = <<>> /\ productNames = <<>>
    /\ isLoading = FALSE /\ error = NoError /\ content = NoContent
    /\ inFlight = 0 /\ orphaned = 0
    /\ captures = 0
    /\ lastEvent = "init" /\ lastResult = "none" /\ attempts = 0

\* The App of src/unnamed/part_000 alone.
Init == MainInit /\ appTsx = AppTsxInit(FALSE)

\* Both Apps side by side, from their initial states.
EquivInit == MainInit /\ appTsx = AppTsxInit(TRUE)

---------------------------------------------------------------------------
\* History bookkeeping of an action: the handler that ran and the gate's
\* result in it; a gate call made before any payment success is counted.
Note(ev, res) ==
    /\ lastEvent' = ev
    /\ lastResult' = res
    /\ attempts' = IF res # "none" /\ ~isPremium /\ attempts <= GENERATION_LIMIT
                   THEN attempts + 1 ELSE attempts
    /\ appTsx' = IF appTsx.running THEN AppTsxHandles(ev, res) ELSE appTsx

\* A newly mounted ProductOptimizer / CategoryOptimizer: the useState defaults.
FreshForm ==
    /\ productName' = <<>> /\ keywords' = <<>>
    /\ categoryKeywords' = <<>> /\ productNames' = <<>>
    /\ isLoading' = FALSE /\ error' = NoError /\ content' = NoContent

\* The mounted form is unmounted: its state is dropped, and a call it has
\* outstanding stays outstanding with nobody left to receive the result.
Unmount ==
    /\ FreshForm
    /\ orphaned' = orphaned + inFlight
    /\ inFlight' = 0

\* Rendering after setCurrentPage(p): OptimizerPage is mounted exactly while
\* currentPage = 'optimizer'; on mount its activeTab is useState(initialTab).
SetCurrentPage(p) ==
    /\ currentPage' = p
    /\ IF currentPage = "optimizer" /\ p # "optimizer"
       THEN activeTab' = "none" /\ Unmount
       ELSE IF currentPage # "optimizer" /\ p = "optimizer"
       THEN activeTab' = initialTab' /\ UNCHANGED <<formVars, inFlight, orphaned>>
       ELSE UNCHANGED <<activeTab, formVars, inFlight, orphaned>>

\* Header logo.
handleNavigateHome ==
    /\ SetCurrentPage("home")
    /\ UNCHANGED <<initialTab, generationCount, showPaywall, isPremium,
                   showPaymentSuccessMessage, dismissTimers, captures>>

NavigateHome ==
    /\ handleNavigateHome
    /\ Note("handleNavigateHome", "none")

\* Sets currentPage to 'pricing'; the frame is left to the caller.
handleNavigateToPricing == SetCurrentPage("pricing")

\* Header "Go Premium" button, rendered only while !isPremium.
NavigateToPricing ==
    /\ ~isPremium
    /\ UNCHANGED initialTab
    /\ handleNavigateToPricing
    /\ UNCHANGED <<generationCount, showPaywall, isPremium,
                   showPaymentSuccessMessage, dismissTimers, captures>>
    /\ Note("handleNavigateToPricing", "none")

\* Mutant: setInitialTab(tab) is missing.
handleNavigateToOptimizer_NoSetInitialTab(tab) ==
    /\ UNCHANGED initialTab
    /\ SetCurrentPage("optimizer")
    /\ UNCHANGED <<generationCount, showPaywall, isPremium,
                   showPaymentSuccessMessage, dismissTimers, captures>>

handleNavigateToOptimizer(tab) ==
    /\ initialTab' = tab
    /\ SetCurrentPage("optimizer")
    /\ UNCHANGED <<generationCount, showPaywall, isPremium,
                   showPaymentSuccessMessage, dismissTimers, captures>>

\* HomePage buttons, rendered only while currentPage = 'home'.
NavigateToOptimizer ==
    /\ currentPage = "home"
    /\ \E tab \in OptimizerTab :
         /\ handleNavigateToOptimizer(tab)
         /\ Note(IF tab = "product" THEN "onOptimizeProduct"
                 ELSE "onOptimizeCategory", "none")

\* OptimizerPage tab buttons: switching tab replaces the mounted form.
SetActiveTab ==
    /\ currentPage = "optimizer"
    /\ \E tab \in OptimizerTab :
         /\ activeTab' = tab
         /\ IF tab = activeTab
            THEN UNCHANGED <<formVars, inFlight, orphaned>>
            ELSE Unmount
    /\ UNCHANGED <<appVars, captures>>
    /\ Note("setActiveTab", "none")

---------------------------------------------------------------------------
\* Mutant: the limit compared with > instead of >=.
handleGenerationAttempt_OffByOne ==
    IF isPremium
    THEN [ret |-> TRUE, generationCount |-> generationCount,
          showPaywall |-> showPaywall]
    ELSE IF generationCount > GENERATION_LIMIT
    THEN [ret |-> FALSE, generationCount |-> generationCount,
          showPaywall |-> TRUE]
    ELSE [ret |-> TRUE, generationCount |-> generationCount + 1,
          showPaywall |-> showPaywall]

\* Mutant: a permitted free attempt forgets setGenerationCount.
handleGenerationAttempt_NoIncrement ==
    IF isPremium
    THEN [ret |-> TRUE, generationCount |-> generationCount,
          showPaywall |-> showPaywall]
    ELSE IF generationCount >= GENERATION_LIMIT
    THEN [ret |-> FALSE, generationCount |-> generationCount,
          showPaywall |-> TRUE]
    ELSE [ret |-> TRUE, generationCount |-> generationCount,
          showPaywall |-> showPaywall]

\* Mutant: a refused attempt forgets setShowPaywall(true).
handleGenerationAttempt_NoPaywall ==
    IF isPremium
    THEN [ret |-> TRUE, generationCount |-> generationCount,
          showPaywall |-> showPaywall]
    ELSE IF generationCount >= GENERATION_LIMIT
    THEN [ret |-> FALSE, generationCount |-> generationCount,
          showPaywall |-> showPaywall]
    ELSE [ret |-> TRUE, generationCount |-> generationCount + 1,
          showPaywall |-> showPaywall]

\* Mutant: the gate without its isPremium test.
handleGenerationAttempt_NoPremiumCheck ==
    IF generationCount >= GENERATION_LIMIT
    THEN [ret |-> FALSE, generationCount |-> generationCount,
          showPaywall |-> TRUE]
    ELSE [ret |-> TRUE, generationCount |-> generationCount + 1,
          showPaywall |-> showPaywall]

\* The gate: its return value and the App state it leaves behind.
handleGenerationAttempt ==
    IF isPremium
    THEN [ret |-> TRUE, generationCount |-> generationCount,
          showPaywall |-> showPaywall]
    ELSE IF generationCount >= GENERATION_LIMIT
    THEN [ret |-> FALSE, generationCount |-> generationCount,
          showPaywall |-> TRUE]
    ELSE [ret |-> TRUE, generationCount |-> generationCount + 1,
          showPaywall |-> showPaywall]

Result(b) == IF b THEN "true" ELSE "false"

\* Mutant: the submit button is not disabled while isLoading.
handleSubmit_NotDisabled(invalid, message) ==
    /\ IF invalid
       THEN /\ error' = message
            /\ UNCHANGED <<generationCount, showPaywall, isLoading, content,
                           inFlight>>
            /\ Note("handleSubmit", "none")
       ELSE LET gate == handleGenerationAttempt IN
            /\ generationCount' = gate.generationCount
            /\ showPaywall' = gate.showPaywall
            /\ IF gate.ret
               THEN /\ inFlight + orphaned < MaxOutstanding
                    /\ isLoading' = TRUE
                    /\ error' = NoError
                    /\ content' = NoContent
                    /\ inFlight' = inFlight + 1
               ELSE UNCHANGED <<isLoading, error, content, inFlight>>
            /\ Note("handleSubmit", Result(gate.ret))
    /\ UNCHANGED <<currentPage, initialTab, isPremium,
                   showPaymentSuccessMessage, dismissTimers, activeTab,
                   fieldVars, orphaned, captures>>

\* Mutant: handleSubmit consults the gate before it validates the fields.
handleSubmit_GateFirst(invalid, message) ==
    /\ ~isLoading
    /\ LET gate == handleGenerationAttempt IN
       /\ generationCount' = gate.generationCount
       /\ showPaywall' = gate.showPaywall
       /\ IF ~gate.ret
          THEN UNCHANGED <<isLoading, error, content, inFlight>>
          ELSE IF invalid
          THEN /\ error' = message
               /\ UNCHANGED <<isLoading, content, inFlight>>
          ELSE /\ inFlight + orphaned < MaxOutstanding
               /\ isLoading' = TRUE
               /\ error' = NoError
               /\ content' = NoContent
               /\ inFlight' = inFlight + 1
       /\ Note("handleSubmit", Result(gate.ret))
    /\ UNCHANGED <<currentPage, initialTab, isPremium,
                   showPaymentSuccessMessage, dismissTimers, activeTab,
                   fieldVars, orphaned, captures>>

\* handleSubmit of either form, given whether its required fields pass
\* validation and the message it shows when they do not.  The submit button
\* is disabled while isLoading.
handleSubmit(invalid, message) ==
    /\ ~isLoading
    /\ IF invalid
       THEN /\ error' = message
            /\ UNCHANGED <<generationCount, showPaywall, isLoading, content,
                           inFlight>>
            /\ Note("handleSubmit", "none")
       ELSE LET gate == handleGenerationAttempt IN
            /\ generationCount' = gate.generationCount
            /\ showPaywall' = gate.showPaywall
            /\ IF gate.ret
               THEN /\ inFlight + orphaned < MaxOutstanding
                    /\ isLoading' = TRUE
                    /\ error' = NoError
                    /\ content' = NoContent
                    /\ inFlight' = inFlight + 1
               ELSE UNCHANGED <<isLoading, error, content, inFlight>>
            /\ Note("handleSubmit", Result(gate.ret))
    /\ UNCHANGED <<currentPage, initialTab, isPremium,
                   showPaymentSuccessMessage, dismissTimers, activeTab,
                   fieldVars, orphaned, captures>>

ProductSubmit ==
    /\ currentPage = "optimizer" /\ activeTab = "product"
    /\ handleSubmit(Blank(productName) \/ Blank(keywords),
                    ProductValidationError)

CategorySubmit ==
    /\ currentPage = "optimizer" /\ activeTab = "category"
    /\ handleSubmit(Blank(categoryKeywords) \/ Blank(productNames),
                    CategoryValidationError)

\* onChange of the required inputs of the mounted form.
EditProductForm ==
    /\ currentPage = "optimizer" /\ activeTab = "product"
    /\ \E v \in FieldValues :
         \/ productName' = v /\ UNCHANGED keywords
         \/ keywords' = v /\ UNCHANGED productName
    /\ UNCHANGED <<appVars, activeTab, categoryKeywords, productNames,
                   isLoading, error, content, inFlight, orphaned, captures>>
    /\ Note("onChange", "none")

EditCategoryForm ==
    /\ currentPage = "optimizer" /\ activeTab = "category"
    /\ \E v \in FieldValues :
         \/ categoryKeywords' = v /\ UNCHANGED productNames
         \/ productNames' = v /\ UNCHANGED categoryKeywords
    /\ UNCHANGED <<appVars, activeTab, productName, keywords,
                   isLoading, error, content, inFlight, orphaned, captures>>
    /\ Note("onChange", "none")

\* The Content Generator call of the mounted form resolves.
GenerationSucceeds ==
    /\ inFlight > 0
    /\ inFlight' = inFlight - 1
    /\ content' = GeneratedContent
    /\ isLoading' = FALSE
    /\ UNCHANGED <<appVars, activeTab, fieldVars, error, orphaned, captures>>
    /\ Note("generationResolved", "none")

\* Mutant: a failed generation gives the free user the attempt back.
GenerationFails_RefundsAttempt ==
    /\ inFlight > 0
    /\ inFlight' = inFlight - 1
    /\ error' = GenerationFailedError
    /\ isLoading' = FALSE
    /\ generationCount' = IF ~isPremium /\ generationCount > 0
                          THEN generationCount - 1 ELSE generationCount
    /\ UNCHANGED <<currentPage, initialTab, showPaywall, isPremium,
                   showPaymentSuccessMessage, dismissTimers, activeTab,
                   fieldVars, content, orphaned, captures>>
    /\ Note("generationRejected", "none")

\* Mutant: handleSubmit has no finally, so a failure leaves isLoading set.
GenerationFails_KeepsLoading ==
    /\ inFlight > 0
    /\ inFlight' = inFlight - 1
    /\ error' = GenerationFailedError
    /\ UNCHANGED isLoading
    /\ UNCHANGED <<appVars, activeTab, fieldVars, content, orphaned, captures>>
    /\ Note("generationRejected", "none")

GenerationFails ==
    /\ inFlight > 0
    /\ inFlight' = inFlight - 1
    /\ error' = GenerationFailedError
    /\ isLoading' = FALSE
    /\ UNCHANGED <<appVars, activeTab, fieldVars, content, orphaned, captures>>
    /\ Note("generationRejected", "none")

\* A call whose form is gone resolves or rejects: its setState calls reach an
\* unmounted component and change nothing.
OrphanResolves ==
    /\ orphaned > 0
    /\ orphaned' = orphaned - 1
    /\ UNCHANGED <<appVars, activeTab, formVars, inFlight, captures>>
    /\ \E outcome \in {"orphanResolved", "orphanRejected"} : Note(outcome, "none")

---------------------------------------------------------------------------
\* PaywallModal, rendered only while showPaywall.
PaywallClose ==
    /\ showPaywall
    /\ showPaywall' = FALSE
    /\ UNCHANGED <<currentPage, initialTab, generationCount, isPremium,
                   showPaymentSuccessMessage, dismissTimers, activeTab,
                   formVars, inFlight, orphaned, captures>>
    /\ Note("onClose", "none")

\* Mutant: onUpgrade navigates but forgets setShowPaywall(false).
PaywallUpgrade_NoClose ==
    /\ showPaywall
    /\ UNCHANGED showPaywall
    /\ UNCHANGED initialTab
    /\ handleNavigateToPricing
    /\ UNCHANGED <<generationCount, isPremium, showPaymentSuccessMessage,
                   dismissTimers, captures>>
    /\ Note("onUpgrade", "none")

PaywallUpgrade ==
    /\ showPaywall
    /\ showPaywall' = FALSE
    /\ UNCHANGED initialTab
    /\ handleNavigateToPricing
    /\ UNCHANGED <<generationCount, isPremium, showPaymentSuccessMessage,
                   dismissTimers, captures>>
    /\ Note("onUpgrade", "none")

\* Mutant: setIsPremium(p => !p).
handlePaymentSuccess_Toggle ==
    /\ isPremium' = ~isPremium
    /\ UNCHANGED initialTab
    /\ SetCurrentPage("optimizer")
    /\ showPaymentSuccessMessage' = TRUE
    /\ dismissTimers' = dismissTimers + 1
    /\ UNCHANGED <<generationCount, showPaywall>>

\* Mutant: the upgrade also resets the usage counter.
handlePaymentSuccess_ResetsCount ==
    /\ isPremium' = TRUE
    /\ UNCHANGED initialTab
    /\ SetCurrentPage("optimizer")
    /\ showPaymentSuccessMessage' = TRUE
    /\ dismissTimers' = dismissTimers + 1
    /\ generationCount' = 0
    /\ UNCHANGED showPaywall

\* Mutant: setCurrentPage('optimizer') is missing.
handlePaymentSuccess_NoRedirect ==
    /\ isPremium' = TRUE
    /\ UNCHANGED initialTab
    /\ SetCurrentPage(currentPage)
    /\ showPaymentSuccessMessage' = TRUE
    /\ dismissTimers' = dismissTimers + 1
    /\ UNCHANGED <<generationCount, showPaywall>>

\* Mutant: the setTimeout that hides the message is missing.
handlePaymentSuccess_NoTimer ==
    /\ isPremium' = TRUE
    /\ UNCHANGED initialTab
    /\ SetCurrentPage("optimizer")
    /\ showPaymentSuccessMessage' = TRUE
    /\ UNCHANGED dismissTimers
    /\ UNCHANGED <<generationCount, showPaywall>>

\* The premium transition; it also arms the timer that hides the message.
handlePaymentSuccess ==
    /\ isPremium' = TRUE
    /\ UNCHANGED initialTab
    /\ SetCurrentPage("optimizer")
    /\ showPaymentSuccessMessage' = TRUE
    /\ dismissTimers' = dismissTimers + 1
    /\ UNCHANGED <<generationCount, showPaywall>>

\* PayPal reports an order approved (a PayPalButton of the PricingPage):
\* onApprove starts and awaits the capture.
PayPalApprove ==
    /\ currentPage = "pricing"
    /\ captures + dismissTimers < MaxPayments
    /\ captures' = captures + 1
    /\ UNCHANGED <<appVars, activeTab, formVars, inFlight, orphaned>>
    /\ Note("onApprove", "none")

\* Mutant: onSuccess() is skipped once the PayPalButton has been unmounted.
CaptureSucceeds_DroppedWhenUnmounted ==
    /\ captures > 0
    /\ captures' = captures - 1
    /\ IF currentPage = "pricing"
       THEN handlePaymentSuccess /\ Note("handlePaymentSuccess", "none")
       ELSE /\ UNCHANGED <<appVars, activeTab, formVars, inFlight, orphaned>>
            /\ Note("captureResolved", "none")

\* The awaited capture resolves: onApprove goes on to call onSuccess.
CaptureSucceeds ==
    /\ captures > 0
    /\ captures' = captures - 1
    /\ handlePaymentSuccess
    /\ Note("handlePaymentSuccess", "none")

\* Mutant: onSuccess() sits in a finally block, so it runs also when the
\* capture rejects.
CaptureFails_StillCallsOnSuccess ==
    /\ captures > 0
    /\ captures' = captures - 1
    /\ handlePaymentSuccess
    /\ Note("captureRejected", "none")

\* The awaited capture rejects: onApprove ends without calling onSuccess.
CaptureFails ==
    /\ captures > 0
    /\ captures' = captures - 1
    /\ UNCHANGED <<appVars, activeTab, formVars, inFlight, orphaned>>
    /\ Note("captureRejected", "none")

\* PayPal reports an error: onError only logs.
PayPalError ==
    /\ currentPage = "pricing"
    /\ UNCHANGED <<appVars, activeTab, formVars, inFlight, orphaned, captures>>
    /\ Note("onError", "none")

\* Mutant: the timer callback clears isPremium instead of the message.
DismissTimerFires_ClearsPremium ==
    /\ dismissTimers > 0
    /\ dismissTimers' = dismissTimers - 1
    /\ isPremium' = FALSE
    /\ UNCHANGED <<currentPage, initialTab, generationCount, showPaywall,
                   showPaymentSuccessMessage, activeTab, formVars, inFlight,
                   orphaned, captures>>
    /\ Note("dismissTimer", "none")

\* A timer armed by handlePaymentSuccess runs.
DismissTimerFires ==
    /\ dismissTimers > 0
    /\ dismissTimers' = dismissTimers - 1
    /\ showPaymentSuccessMessage' = FALSE
    /\ UNCHANGED <<currentPage, initialTab, generationCount, showPaywall,
                   isPremium, activeTab, formVars, inFlight, orphaned, captures>>
    /\ Note("dismissTimer", "none")

Next ==
    \/ NavigateHome
    \/ NavigateToPricing
    \/ NavigateToOptimizer
    \/ SetActiveTab
    \/ EditProductForm
    \/ EditCategoryForm
    \/ ProductSubmit
    \/ CategorySubmit
    \/ GenerationSucceeds
    \/ GenerationFails
    \/ OrphanResolves
    \/ PaywallClose
    \/ PaywallUpgrade
    \/ PayPalApprove
    \/ CaptureSucceeds
    \/ CaptureFails
    \/ PayPalError
    \/ DismissTimerFires

Spec == Init /\ [][Next]_vars

\* The events both Apps have: navigation home and to the optimizer, the
\* optimizer forms with their generation attempts, and closing the paywall.
EquivNext ==
    \/ NavigateHome
    \/ NavigateToOptimizer
    \/ SetActiveTab
    \/ EditProductForm
    \/ EditCategoryForm
    \/ ProductSubmit
    \/ CategorySubmit
    \/ GenerationSucceeds
    \/ GenerationFails
    \/ OrphanResolves
    \/ PaywallClose

EquivSpec == EquivInit /\ [][EquivNext]_vars

\* The browser runs an armed timer once its delay has passed.
FairSpec == Spec /\ WF_vars(DismissTimerFires)

TypeOK ==
    /\ currentPage \in Page
    /\ initialTab \in OptimizerTab
    /\ generationCount \in Nat
    /\ showPaywall \in BOOLEAN /\ isPremium \in BOOLEAN
    /\ showPaymentSuccessMessage \in BOOLEAN
    /\ dismissTimers \in Nat
    /\ activeTab \in OptimizerTab \cup {"none"}
    /\ (activeTab = "none") = (currentPage # "optimizer")
    /\ {productName, keywords, categoryKeywords, productNames} \subseteq FieldValues
    /\ isLoading \in BOOLEAN
    /\ inFlight \in 0..1 /\ orphaned \in Nat /\ captures \in Nat
    /\ lastResult \in {"none", "true", "false"}

---------------------------------------------------------------------------
\* The step is a handleSubmit that consulted the gate.
AttemptStep == lastEvent' = "handleSubmit" /\ lastResult' # "none"

\* The state follows a handleSubmit that consulted the gate.
Attempted == lastEvent = "handleSubmit" /\ lastResult # "none"

\* C1: every gate call returns true if and only if, in the state in which it
\* is made, isPremium holds or generationCount is below GENERATION_LIMIT.
C1_GatePermitsIffPremiumOrBelowLimit ==
    [][AttemptStep =>
        ((lastResult' = "true") <=>
            (isPremium \/ generationCount < GENERATION_LIMIT))]_vars

\* C1 witness: a free user at the limit was refused.
C1_Witness ==
    /\ Attempted /\ lastResult = "false"
    /\ ~isPremium /\ generationCount = GENERATION_LIMIT

\* C2: as long as no payment has succeeded, each of the first n < 20 gate
\* calls returns true and adds one to generationCount, so after n calls the
\* counter is n.
C2_FirstCallsCountUp ==
    /\ [](~isPremium /\ attempts < GENERATION_LIMIT => generationCount = attempts)
    /\ [][AttemptStep /\ ~isPremium /\ attempts' < GENERATION_LIMIT =>
            /\ lastResult' = "true"
            /\ generationCount' = generationCount + 1]_vars

\* C2 witness: the 19th call of a free session has just been permitted.
C2_Witness ==
    /\ Attempted /\ lastResult = "true" /\ ~isPremium
    /\ attempts = GENERATION_LIMIT - 1 /\ generationCount = GENERATION_LIMIT - 1

\* C3: for a free user the call at 19 is permitted and makes the counter 20;
\* every call at 20 is refused, leaves the counter at 20, raises the paywall
\* and changes neither isPremium nor the page nor the tab.
C3_BoundaryAtLimit ==
    [][AttemptStep /\ ~isPremium =>
        /\ generationCount = GENERATION_LIMIT - 1 =>
             lastResult' = "true" /\ generationCount' = GENERATION_LIMIT
        /\ generationCount = GENERATION_LIMIT =>
             /\ lastResult' = "false"
             /\ generationCount' = GENERATION_LIMIT
             /\ showPaywall'
             /\ UNCHANGED <<isPremium, currentPage, initialTab, activeTab>>]_vars

\* C3 witness: the 21st call of a free session was refused with the paywall up.
C3_Witness ==
    /\ Attempted /\ lastResult = "false" /\ showPaywall
    /\ attempts = GENERATION_LIMIT + 1 /\ generationCount = GENERATION_LIMIT

\* C4: a gate call made while isPremium returns true whatever the counter is,
\* and changes no App state: the counter is not incremented and the paywall
\* is not raised.
C4_PremiumAlwaysPermitted ==
    [][AttemptStep /\ isPremium =>
        /\ lastResult' = "true"
        /\ UNCHANGED <<generationCount, showPaywall, isPremium, currentPage,
                       initialTab, activeTab>>]_vars

\* C4 witness: a premium user whose counter is at the limit was permitted.
C4_Witness ==
    /\ Attempted /\ lastResult = "true"
    /\ isPremium /\ generationCount >= GENERATION_LIMIT

\* C5: isPremium starts false, becomes true only in a handlePaymentSuccess
\* step, and never becomes false again.
C5_PremiumOnlyByPaymentAndSticky ==
    /\ ~isPremium
    /\ [][isPremium' # isPremium =>
            ~isPremium /\ isPremium' /\ lastEvent' = "handlePaymentSuccess"]_vars

\* C5 witness: premium has survived a later payment callback's navigation away.
C5_Witness ==
    /\ isPremium /\ lastEvent = "handleNavigateHome" /\ generationCount > 0

\* C6: generationCount starts at 0 and never decreases; the only step that
\* changes it is a permitted gate call, and the change is an increment by one.
C6_CounterMonotone ==
    /\ generationCount = 0
    /\ [][generationCount' # generationCount =>
            /\ generationCount' = generationCount + 1
            /\ AttemptStep /\ lastResult' = "true"]_vars

\* C6 witness: a non-zero counter has come through a payment success.
C6_Witness ==
    /\ lastEvent = "handlePaymentSuccess"
    /\ generationCount > 0 /\ generationCount < GENERATION_LIMIT

\* C7: handlePaymentSuccess, from any state, leaves isPremium true, the page
\* on the optimizer and the success message raised, keeps the counter and the
\* tab, and the gate then permits at that counter value.
C7_PaymentSuccessEffect ==
    [][lastEvent' = "handlePaymentSuccess" =>
        /\ isPremium' /\ currentPage' = "optimizer"
        /\ showPaymentSuccessMessage'
        /\ UNCHANGED <<generationCount, initialTab>>
        /\ activeTab' = (IF activeTab = "none" THEN initialTab ELSE activeTab)
        /\ handleGenerationAttempt'.ret
        /\ handleGenerationAttempt'.generationCount = generationCount]_vars

\* C7 witness: the payment succeeded away from the pricing page's normal
\* flow, with the paywall shown and the counter at the limit.
C7_Witness ==
    /\ lastEvent = "handlePaymentSuccess"
    /\ showPaywall /\ generationCount = GENERATION_LIMIT

\* C8: a handlePaymentSuccess that directly follows another one can run and
\* leaves isPremium, the page, the tab and the counter as the first left them.
C8_PaymentSuccessIdempotent ==
    /\ [](captures > 0 => ENABLED CaptureSucceeds)
    /\ [][lastEvent = "handlePaymentSuccess" /\ lastEvent' = "handlePaymentSuccess" =>
            /\ UNCHANGED <<isPremium, currentPage, initialTab, activeTab,
                           generationCount>>
            /\ isPremium' /\ currentPage' = "optimizer"]_vars

\* C8 witness: handlePaymentSuccess has run again while the timer of an
\* earlier run is still armed.
C8_Witness ==
    /\ lastEvent = "handlePaymentSuccess" /\ dismissTimers >= 2

\* C9: a raised success message is eventually hidden with no step but the
\* timers', only a timer hides it, and only handlePaymentSuccess raises it
\* again (also when several timers are armed at once).
C9_MessageAutoDismissed ==
    /\ [](showPaymentSuccessMessage => <>~showPaymentSuccessMessage)
    /\ [][showPaymentSuccessMessage /\ ~showPaymentSuccessMessage' =>
            lastEvent' = "dismissTimer"]_vars
    /\ [][~showPaymentSuccessMessage /\ showPaymentSuccessMessage' =>
            lastEvent' = "handlePaymentSuccess"]_vars

\* C9 witness: a timer has hidden the message while a later one is armed.
C9_Witness ==
    /\ lastEvent = "dismissTimer" /\ ~showPaymentSuccessMessage
    /\ dismissTimers > 0

\* A field's text has no character other than whitespace.
NoText(s) == \A i \in DOMAIN s : s[i] = " "

\* A required field of the mounted form is empty.
RequiredFieldEmpty ==
    IF activeTab = "product"
    THEN NoText(productName) \/ NoText(keywords)
    ELSE NoText(categoryKeywords) \/ NoText(productNames)

\* The validation message of the mounted form.
ValidationError ==
    IF activeTab = "product" THEN ProductValidationError
    ELSE CategoryValidationError

\* C10: a submit with an empty required field does not consult the gate,
\* leaves the counter and the paywall as they were, issues no Content
\* Generator call and sets nothing but the form's validation error.
C10_InvalidSubmitRejectedBeforeGate ==
    [][lastEvent' = "handleSubmit" /\ RequiredFieldEmpty =>
        /\ lastResult' = "none"
        /\ error' = ValidationError
        /\ UNCHANGED <<currentPage, initialTab, generationCount, showPaywall,
                       isPremium, showPaymentSuccessMessage, dismissTimers,
                       activeTab, fieldVars, isLoading, content, inFlight,
                       orphaned, captures, attempts>>]_vars

\* C10 witness: a free user at the limit submitted the category form with one
\* required field filled and the other whitespace only; no paywall came up.
C10_Witness ==
    /\ lastEvent = "handleSubmit" /\ lastResult = "none"
    /\ error = CategoryValidationError
    /\ categoryKeywords = <<"a">> /\ productNames = <<" ">>
    /\ ~isPremium /\ generationCount = GENERATION_LIMIT /\ ~showPaywall

---------------------------------------------------------------------------
\* C11: a payment that ends in error (onError, or a capture that rejects
\* after the approval) leaves isPremium, generationCount, currentPage and
\* the tab as they were and does not run handlePaymentSuccess (no message,
\* no timer); on the pricing page another payment can then be started.
C11_PaymentErrorChangesNothing ==
    /\ [][lastEvent' \in {"onError", "captureRejected"} =>
            UNCHANGED <<isPremium, generationCount, currentPage, initialTab,
                        activeTab, showPaywall, showPaymentSuccessMessage,
                        dismissTimers, formVars, inFlight, orphaned>>]_vars
    /\ [](lastEvent \in {"onError", "captureRejected"}
            /\ currentPage = "pricing"
            /\ captures + dismissTimers < MaxPayments
          => ENABLED PayPalApprove)

\* C11 witness: a free user's capture was rejected on the pricing page.
C11_Witness ==
    /\ lastEvent = "captureRejected" /\ currentPage = "pricing"
    /\ ~isPremium /\ generationCount > 0

---------------------------------------------------------------------------
\* The number of Content Generator calls outstanding grows in this step.
CallIssued == inFlight' + orphaned' > inFlight + orphaned

\* C12 as stated: whenever a permitted request fails, the form on screen ends
\* with the failure message set, no content and loading cleared, and no call
\* is issued except by a permitted submit.
C12_AsStated ==
    /\ [][lastEvent' \in {"generationRejected", "orphanRejected"} =>
            /\ error' = GenerationFailedError
            /\ content' = NoContent
            /\ ~isLoading']_vars
    /\ [][CallIssued => AttemptStep /\ lastResult' = "true"]_vars

\* C12 amended: a failure that reaches the form that issued the request sets
\* the failure message, leaves content null and clears loading; a failure of
\* a request whose form has been unmounted (tab switch, page change) changes
\* nothing and shows no message; in both cases one call fewer is outstanding
\* and no call is issued except by a permitted submit.
C12_FailureSurfacedWhileMounted ==
    /\ [][lastEvent' = "generationRejected" =>
            /\ error' = GenerationFailedError
            /\ content' = NoContent
            /\ ~isLoading'
            /\ inFlight' + orphaned' = inFlight + orphaned - 1]_vars
    /\ [][lastEvent' = "orphanRejected" =>
            /\ UNCHANGED <<appVars, activeTab, formVars>>
            /\ inFlight' + orphaned' = inFlight + orphaned - 1]_vars
    /\ [][CallIssued => AttemptStep /\ lastResult' = "true"]_vars

\* C12 witness: a request of the mounted form has failed while an earlier
\* form's request is still outstanding.
C12_Witness ==
    /\ lastEvent = "generationRejected"
    /\ error = GenerationFailedError /\ content = NoContent /\ ~isLoading
    /\ inFlight = 0 /\ orphaned > 0

---------------------------------------------------------------------------
\* C13: every approved order whose capture resolves runs handlePaymentSuccess
\* exactly once, wherever the user is by then: the step that consumes the
\* capture is one handlePaymentSuccess (it arms one timer), and
\* handlePaymentSuccess runs in no other step.
C13_OnePaymentSuccessPerCapture ==
    /\ [][captures' < captures /\ lastEvent' # "captureRejected" =>
            /\ captures' = captures - 1
            /\ lastEvent' = "handlePaymentSuccess"
            /\ isPremium' /\ dismissTimers' = dismissTimers + 1]_vars
    /\ [][dismissTimers' > dismissTimers \/ lastEvent' = "handlePaymentSuccess" =>
            /\ dismissTimers' = dismissTimers + 1
            /\ captures' = captures - 1]_vars

\* C13 witness: the payment succeeded while the user, back on the optimizer,
\* had a generation request pending in the mounted form.
C13_Witness ==
    /\ lastEvent = "handlePaymentSuccess" /\ isLoading /\ inFlight = 1

---------------------------------------------------------------------------
\* The step is the resolution of an outstanding Content Generator call.
ResolutionStep ==
    lastEvent' \in {"generationResolved", "generationRejected",
                    "orphanResolved", "orphanRejected"}

\* C14: a call is issued only in the step in which the gate has returned
\* true, and the resolution of an outstanding call (success or failure, form
\* still mounted or not) leaves generationCount, isPremium and showPaywall
\* as they are: a failure gives no attempt back.
C14_GateDecisionNotRevisited ==
    /\ [][CallIssued =>
            /\ AttemptStep /\ lastResult' = "true"
            /\ inFlight' + orphaned' = inFlight + orphaned + 1]_vars
    /\ [][ResolutionStep =>
            /\ UNCHANGED <<generationCount, isPremium, showPaywall>>
            /\ inFlight' + orphaned' = inFlight + orphaned - 1]_vars

\* C14 witness: a call failed after its form was left and the gate had
\* meanwhile refused the free user at the limit; the counter stays at 20.
C14_Witness ==
    /\ lastEvent = "orphanRejected" /\ showPaywall /\ ~isPremium
    /\ generationCount = GENERATION_LIMIT

---------------------------------------------------------------------------
\* C15: after handleNavigateToOptimizer(tab) the page is the optimizer and
\* the optimizer's active tab (and initialTab) is the requested tab.
C15_OptimizerOpensOnRequestedTab ==
    /\ [][lastEvent' = "onOptimizeProduct" =>
            /\ currentPage' = "optimizer"
            /\ activeTab' = "product" /\ initialTab' = "product"]_vars
    /\ [][lastEvent' = "onOptimizeCategory" =>
            /\ currentPage' = "optimizer"
            /\ activeTab' = "category" /\ initialTab' = "category"]_vars

\* C15 witness: the product tab was requested by a user who had been on the
\* optimizer before and had left it with a request pending.
C15_Witness ==
    /\ lastEvent = "onOptimizeProduct" /\ activeTab = "product"
    /\ orphaned > 0 /\ attempts > 0

---------------------------------------------------------------------------
\* C16: a submit the gate refuses issues no Content Generator call and leaves
\* the form's isLoading, error and content alone; the paywall is shown after
\* it, and Upgrade on the paywall closes it and sets the page to pricing.
C16_RefusedAttemptShowsPaywall ==
    /\ [][AttemptStep /\ lastResult' = "false" =>
            /\ UNCHANGED <<isLoading, error, content, inFlight, orphaned,
                           currentPage>>
            /\ showPaywall']_vars
    /\ [][lastEvent' = "onUpgrade" =>
            showPaywall /\ ~showPaywall' /\ currentPage' = "pricing"]_vars

\* C16 witness: the refused free user has chosen Upgrade and is on the
\* pricing page with the paywall closed.
C16_Witness ==
    /\ lastEvent = "onUpgrade" /\ currentPage = "pricing" /\ ~showPaywall
    /\ ~isPremium /\ generationCount = GENERATION_LIMIT
    /\ attempts = GENERATION_LIMIT + 1

---------------------------------------------------------------------------
\* C17 as stated: in no reachable state are two Content Generator calls
\* outstanding at once.
C17_AsStated == inFlight + orphaned <= 1

\* C17 amended: the mounted form has at most one call of its own outstanding,
\* its trigger is disabled exactly while that call is outstanding: a
\* permitted submit happens with the trigger enabled and disables it, and
\* the call's resolution enables it again.  Calls of forms that have been
\* unmounted are not counted by any trigger.
C17_OneCallPerMountedForm ==
    /\ [](inFlight <= 1 /\ (isLoading <=> inFlight = 1))
    /\ [][AttemptStep /\ lastResult' = "true" =>
            ~isLoading /\ isLoading' /\ inFlight' = 1]_vars
    /\ [][lastEvent' \in {"generationResolved", "generationRejected"} =>
            isLoading /\ ~isLoading' /\ inFlight' = 0]_vars

\* C17 witness: two calls are outstanding at once, one of the mounted form
\* (trigger disabled) and one of a form that was unmounted.
C17_Witness ==
    /\ inFlight = 1 /\ isLoading /\ orphaned >= 1
    /\ currentPage = "optimizer"

---------------------------------------------------------------------------
\* C18: in every reachable state generationCount is between 0 and
\* GENERATION_LIMIT.
C18_CounterWithinLimit ==
    generationCount >= 0 /\ generationCount <= GENERATION_LIMIT

\* C18 witness: the counter is at the limit with the paywall raised while a
\* generation call and a payment capture are both still outstanding.
C18_Witness ==
    /\ generationCount = GENERATION_LIMIT /\ showPaywall
    /\ inFlight + orphaned > 0 /\ captures > 0

---------------------------------------------------------------------------
\* C19: the paywall is never shown to a premium user: showPaywall implies
\* that isPremium is false.
C19_PaywallNeverShownToPremium == showPaywall => ~isPremium

---------------------------------------------------------------------------
\* C20: while no payment succeeds, the App of src/App.tsx and the App of
\* src/unnamed/part_000, fed the same generation attempts, paywall closes and
\* navigations, return the same gate results and keep equal generationCount,
\* showPaywall, currentPage and initialTab.
C20_GatesEquivalentWithoutPayment ==
    /\ appTsx.running /\ ~isPremium
    /\ appTsx.ret = lastResult
    /\ appTsx.generationCount = generationCount
    /\ appTsx.showPaywall = showPaywall
    /\ appTsx.currentPage = currentPage
    /\ appTsx.initialTab = initialTab

\* C20 witness: both gates have just refused the 21st attempt.
C20_Witness ==
    /\ appTsx.running /\ Attempted
    /\ appTsx.ret = "false" /\ lastResult = "false"
    /\ appTsx.generationCount = GENERATION_LIMIT /\ appTsx.showPaywall



=============================================================================
